---- MODULE Spec2Model ----
(***************************************************************************)
(* Model of z3/src/model.rs (the reference-counted Model wrapper) and of   *)
(* z3/src/symbol.rs (the Symbol codec).                                    *)
(*                                                                         *)
(* The wrapper code is translated from the Rust source.  The engine behind *)
(* the Z3_* calls, the Solver/Optimize objects and the Ast trait are not   *)
(* part of these two files; they are modelled after the contracts the      *)
(* specification gives for them (sections 3, 4.1, 4.2 and 6).              *)
(***************************************************************************)
EXTENDS Integers, Sequences, FiniteSets, TLC

VARIABLES heap, prod, models, ret, symIn, symHandle, symOut

vars == <<heap, prod, models, ret, symIn, symHandle, symOut>>
mdlVars == <<heap, prod, models, ret>>
symVars == <<symIn, symHandle, symOut>>

(***************************************************************************)
(* Bounds                                                                  *)
(***************************************************************************)
MaxHandles == 2   \* engine model objects that can be allocated at once
MaxModels == 2    \* Model wrappers built in one run
MaxLen == 3       \* characters of a Symbol::String

(***************************************************************************)
(* Engine universe                                                         *)
(***************************************************************************)
Null == 0
Handles == 1..MaxHandles
Slots == 1..MaxModels
Ctx == {"c1", "c2"}
Producers == {"slv", "opt"}
ProdCtx(p) == IF p = "slv" THEN "c1" ELSE "c2"

Consts == {"x", "y"}
ConstOrder == <<"x", "y">>
DeclSort(c) == IF c = "x" THEN "Int" ELSE "Bool"
Sorts == {"Int", "Bool"}

NullAst == [sort |-> "Null", v |-> 0]
IntVal(n) == [sort |-> "Int", v |-> n]
BoolVal(n) == [sort |-> "Bool", v |-> n]
Values(s) == {[sort |-> s, v |-> n] : n \in 0..1}

\* the models the engine may produce: no constant assigned, either one, both
Interps == {[x |-> NullAst, y |-> NullAst],
            [x |-> IntVal(0), y |-> NullAst],
            [x |-> NullAst, y |-> BoolVal(1)],
            [x |-> IntVal(1), y |-> BoolVal(0)],
            [x |-> IntVal(1), y |-> BoolVal(1)]}
\* the defaults model completion may choose
Defaults == {[x |-> IntVal(0), y |-> BoolVal(0)], [x |-> IntVal(1), y |-> BoolVal(1)]}

\* rc: the reference count; held: the references the engine's own solver holds
FreeObj == [alloc |-> FALSE, ctx |-> "c1", rc |-> 0, held |-> 0,
            interp |-> [c \in Consts |-> NullAst]]

Valid(hp, c, h) == h # Null /\ hp[h].alloc /\ hp[h].ctx = c

Call(fn, hp, c, h) == [fn |-> fn, ctx |-> c, mdl |-> h, valid |-> Valid(hp, c, h)]

(***************************************************************************)
(* Expressions handed to eval: a constant of each sort, a literal and an   *)
(* if-then-else over both constants.  An ast is a record; values carry     *)
(* v in 0..1 and expressions carry a code.                                 *)
(***************************************************************************)
ExprX == [sort |-> "Int", v |-> 10]
ExprY == [sort |-> "Bool", v |-> 11]
ExprLit == [sort |-> "Int", v |-> 12]
ExprIte == [sort |-> "Int", v |-> 13]
Exprs == {ExprX, ExprY, ExprLit, ExprIte}
Deps(e) == IF e = ExprX THEN {"x"}
           ELSE IF e = ExprY THEN {"y"}
           ELSE IF e = ExprIte THEN {"x", "y"}
           ELSE {}
EvalExpr(e, f) == IF e = ExprX THEN f["x"]
                  ELSE IF e = ExprY THEN f["y"]
                  ELSE IF e = ExprIte
                         THEN (IF f["y"].v = 1 THEN f["x"] ELSE IntVal(0))
                  ELSE IntVal(1)

(***************************************************************************)
(* The engine (external): reference counts, model objects, queries.        *)
(***************************************************************************)
Z3_model_inc_ref(hp, c, h) ==
    IF Valid(hp, c, h) THEN [hp EXCEPT ![h].rc = @ + 1] ELSE hp

Z3_model_dec_ref(hp, c, h) ==
    IF ~Valid(hp, c, h) THEN hp
    ELSE IF hp[h].rc <= 1 THEN [hp EXCEPT ![h] = FreeObj]
    ELSE [hp EXCEPT ![h].rc = @ - 1]

\* "get current model handle or null": null unless the last check was sat
Z3_solver_get_model(pr, p) == IF pr[p].status = "sat" THEN pr[p].mdl ELSE Null

\* a copy of the source's contents in a new object of the destination
\* context, at handle f; f = Null is the engine's failure
Z3_model_translate(hp, c, h, dest, f) ==
    IF f = Null \/ ~Valid(hp, c, h) THEN [heap |-> hp, mdl |-> Null]
    ELSE [heap |-> [hp EXCEPT ![f] = [alloc |-> TRUE, ctx |-> dest, rc |-> 0,
                                       held |-> 0, interp |-> hp[h].interp]],
          mdl |-> f]

Assigned(hp, h) == {c \in Consts : hp[h].interp[c] # NullAst}

\* dflt: the engine-chosen defaults used by model completion
Z3_model_eval(hp, c, h, e, mc, dflt) ==
    IF ~Valid(hp, c, h) THEN [ok |-> FALSE, ast |-> NullAst]
    ELSE IF Deps(e) \subseteq Assigned(hp, h)
           THEN [ok |-> TRUE, ast |-> EvalExpr(e, hp[h].interp)]
    ELSE IF mc
           THEN [ok |-> TRUE,
                 ast |-> EvalExpr(e, [k \in Consts |->
                            IF hp[h].interp[k] = NullAst THEN dflt[k]
                            ELSE hp[h].interp[k]])]
    ELSE [ok |-> FALSE, ast |-> NullAst]

Z3_model_get_num_consts(hp, c, h) ==
    IF Valid(hp, c, h) THEN Cardinality(Assigned(hp, h)) ELSE 0

AssignedSeq(hp, h) == SelectSeq(ConstOrder, LAMBDA k : k \in Assigned(hp, h))

\* the index-th assigned constant; "none" stands for the engine's error result
Z3_model_get_const_decl(hp, c, h, index) ==
    IF Valid(hp, c, h) /\ index < Len(AssignedSeq(hp, h))
      THEN AssignedSeq(hp, h)[index + 1]
      ELSE "none"

Z3_model_get_const_interp(hp, c, h, decl) ==
    IF Valid(hp, c, h) THEN hp[h].interp[decl] ELSE NullAst

Z3_get_sort(ast) == ast.sort

(***************************************************************************)
(* The Ast trait (external): wrap-from-handle and the sort a typed wrapper *)
(* reports for itself.                                                     *)
(***************************************************************************)
T_wrap(c, ast, T) == [ctx |-> c, ast |-> ast, T |-> T]
T_get_sort(t) == t.T
NoVal == [ctx |-> "c1", ast |-> NullAst, T |-> "Null"]

(***************************************************************************)
(* model.rs: the Model wrapper.  Each operator is one function of the      *)
(* source; it returns what the function returns together with the engine   *)
(* heap after it and the engine calls it issued.                           *)
(***************************************************************************)
NoModel == [ctx |-> "c1", z3_mdl |-> Null]

\* wrap without the increment
wrap_noinc(hp, c, z3_mdl) ==
    [heap |-> hp, model |-> [ctx |-> c, z3_mdl |-> z3_mdl], calls |-> <<>>]

wrap(hp, c, z3_mdl) ==
    [heap |-> Z3_model_inc_ref(hp, c, z3_mdl),
     model |-> [ctx |-> c, z3_mdl |-> z3_mdl],
     calls |-> <<Call("Z3_model_inc_ref", hp, c, z3_mdl)>>]

\* of_solver without the null test
of_solver_nocheck(hp, pr) ==
    LET m == Z3_solver_get_model(pr, "slv")
        w == wrap(hp, ProdCtx("slv"), m)
    IN  [tag |-> "Some", heap |-> w.heap, model |-> w.model, calls |-> w.calls]

of_solver(hp, pr) ==
    LET m == Z3_solver_get_model(pr, "slv")
        w == wrap(hp, ProdCtx("slv"), m)
    IN  IF m = Null
          THEN [tag |-> "None", heap |-> hp, model |-> NoModel, calls |-> <<>>]
          ELSE [tag |-> "Some", heap |-> w.heap, model |-> w.model, calls |-> w.calls]

of_optimize(hp, pr) ==
    LET m == Z3_solver_get_model(pr, "opt")
        w == wrap(hp, ProdCtx("opt"), m)
    IN  IF m = Null
          THEN [tag |-> "None", heap |-> hp, model |-> NoModel, calls |-> <<>>]
          ELSE [tag |-> "Some", heap |-> w.heap, model |-> w.model, calls |-> w.calls]

translate(hp, self, dest, f) ==
    LET t == Z3_model_translate(hp, self.ctx, self.z3_mdl, dest, f)
        w == wrap(t.heap, dest, t.mdl)
    IN  [tag |-> "Some", heap |-> w.heap, model |-> w.model,
         calls |-> <<Call("Z3_model_translate", hp, self.ctx, self.z3_mdl)>> \o w.calls]

\* eval that ignores the engine's success flag
eval_ignores_res(hp, self, ast, model_completion, dflt) ==
    LET r == Z3_model_eval(hp, self.ctx, self.z3_mdl, ast, model_completion, dflt)
        tmp == IF r.ok THEN r.ast ELSE ast
    IN  [tag |-> "Some", val |-> T_wrap(self.ctx, tmp, ast.sort), heap |-> hp,
         calls |-> <<Call("Z3_model_eval", hp, self.ctx, self.z3_mdl)>>]

eval(hp, self, ast, model_completion, dflt) ==
    LET r == Z3_model_eval(hp, self.ctx, self.z3_mdl, ast, model_completion, dflt)
        tmp == IF r.ok THEN r.ast ELSE ast
        calls == <<Call("Z3_model_eval", hp, self.ctx, self.z3_mdl)>>
    IN  IF r.ok
          THEN [tag |-> "Some", val |-> T_wrap(self.ctx, tmp, ast.sort), heap |-> hp,
                calls |-> calls]
          ELSE [tag |-> "None", val |-> NoVal, heap |-> hp, calls |-> calls]

\* get_num_consts that takes a reference it never gives back
get_num_consts_inc(hp, self) ==
    [n |-> Z3_model_get_num_consts(hp, self.ctx, self.z3_mdl),
     heap |-> Z3_model_inc_ref(hp, self.ctx, self.z3_mdl),
     calls |-> <<Call("Z3_model_get_num_consts", hp, self.ctx, self.z3_mdl)>>]

get_num_consts(hp, self) ==
    [n |-> Z3_model_get_num_consts(hp, self.ctx, self.z3_mdl), heap |-> hp,
     calls |-> <<Call("Z3_model_get_num_consts", hp, self.ctx, self.z3_mdl)>>]

\* get_const_decl with the bound test off by one
get_const_decl_offbyone(hp, self, index) ==
    LET num == get_num_consts(hp, self).calls
    IN  IF index > get_num_consts(hp, self).n
          THEN [tag |-> "None", decl |-> "none", heap |-> hp, calls |-> num]
          ELSE [tag |-> "Some", heap |-> hp,
                decl |-> Z3_model_get_const_decl(hp, self.ctx, self.z3_mdl, index),
                calls |-> num \o <<Call("Z3_model_get_const_decl", hp, self.ctx,
                                        self.z3_mdl)>>]

get_const_decl(hp, self, index) ==
    LET num == get_num_consts(hp, self).calls
    IN  IF index >= get_num_consts(hp, self).n
          THEN [tag |-> "None", decl |-> "none", heap |-> hp, calls |-> num]
          ELSE [tag |-> "Some", heap |-> hp,
                decl |-> Z3_model_get_const_decl(hp, self.ctx, self.z3_mdl, index),
                calls |-> num \o <<Call("Z3_model_get_const_decl", hp, self.ctx,
                                        self.z3_mdl)>>]

\* get_const_interp with the sort check before the presence check
get_const_interp_sortfirst(hp, self, func_decl, T) ==
    LET res_ast == Z3_model_get_const_interp(hp, self.ctx, self.z3_mdl, func_decl)
        res_ast_sort == Z3_get_sort(res_ast)
        res == T_wrap(self.ctx, res_ast, T)
        calls == <<Call("Z3_model_get_const_interp", hp, self.ctx, self.z3_mdl)>>
    IN  IF T_get_sort(res) # res_ast_sort
          THEN [tag |-> "Panic", val |-> NoVal, heap |-> hp, calls |-> calls]
          ELSE IF res_ast = NullAst
                 THEN [tag |-> "None", val |-> NoVal, heap |-> hp, calls |-> calls]
                 ELSE [tag |-> "Some", val |-> res, heap |-> hp, calls |-> calls]

get_const_interp(hp, self, func_decl, T) ==
    LET res_ast == Z3_model_get_const_interp(hp, self.ctx, self.z3_mdl, func_decl)
        res_ast_sort == Z3_get_sort(res_ast)
        res == T_wrap(self.ctx, res_ast, T)
        calls == <<Call("Z3_model_get_const_interp", hp, self.ctx, self.z3_mdl)>>
    IN  IF res_ast = NullAst
          THEN [tag |-> "None", val |-> NoVal, heap |-> hp, calls |-> calls]
          ELSE IF T_get_sort(res) # res_ast_sort
                 THEN [tag |-> "Panic", val |-> NoVal, heap |-> hp, calls |-> calls]
                 ELSE [tag |-> "Some", val |-> res, heap |-> hp, calls |-> calls]

\* get_const_interp_unchecked without the presence check
get_const_interp_unchecked_nonull(hp, self, func_decl, T) ==
    LET res_ast == Z3_model_get_const_interp(hp, self.ctx, self.z3_mdl, func_decl)
    IN  [tag |-> "Some", val |-> T_wrap(self.ctx, res_ast, T), heap |-> hp,
         calls |-> <<Call("Z3_model_get_const_interp", hp, self.ctx, self.z3_mdl)>>]

get_const_interp_unchecked(hp, self, func_decl, T) ==
    LET res_ast == Z3_model_get_const_interp(hp, self.ctx, self.z3_mdl, func_decl)
        calls == <<Call("Z3_model_get_const_interp", hp, self.ctx, self.z3_mdl)>>
    IN  IF res_ast = NullAst
          THEN [tag |-> "None", val |-> NoVal, heap |-> hp, calls |-> calls]
          ELSE [tag |-> "Some", val |-> T_wrap(self.ctx, res_ast, T), heap |-> hp,
                calls |-> calls]

\* p: what the engine's model-to-string produced: a null pointer, text, or
\* bytes that are not valid text
Z3_model_to_string(hp, c, h, p) == IF Valid(hp, c, h) THEN p ELSE "null"

fmt(hp, self, p) ==
    LET s == Z3_model_to_string(hp, self.ctx, self.z3_mdl, p)
        calls == <<Call("Z3_model_to_string", hp, self.ctx, self.z3_mdl)>>
    IN  IF s = "null" THEN [tag |-> "Err", heap |-> hp, calls |-> calls]
        ELSE IF s = "text" THEN [tag |-> "Ok", heap |-> hp, calls |-> calls]
        ELSE [tag |-> "Err", heap |-> hp, calls |-> calls]

drop(hp, self) ==
    [heap |-> Z3_model_dec_ref(hp, self.ctx, self.z3_mdl),
     calls |-> <<Call("Z3_model_dec_ref", hp, self.ctx, self.z3_mdl)>>]

(***************************************************************************)
(* State                                                                   *)
(***************************************************************************)
NoInterp == [c \in Consts |-> NullAst]
\* incs, decs: the increments and decrements the wrapper has issued; snap: the
\* contents it was built over
Unborn == [st |-> "unborn", ctx |-> "c1", z3_mdl |-> Null, incs |-> 0, decs |-> 0,
           snap |-> NoInterp]
NoArg == [e |-> NullAst, mc |-> FALSE, idx |-> 0, decl |-> "none", T |-> "Null",
          dest |-> "c1"]
NoRet == [op |-> "idle", self |-> 0, calls |-> <<>>, tag |-> "Unit", val |-> NoVal,
          n |-> 0, decl |-> "none", arg |-> NoArg]

Count(calls, fn) == Cardinality({i \in DOMAIN calls : calls[i].fn = fn})

\* every call is a blocking round trip: the caller is between two calls
Idle == ret = NoRet

Live(w) == models[w].st = "live"
Self(w) == [ctx |-> models[w].ctx, z3_mdl |-> models[w].z3_mdl]
HasSlot == \E w \in Slots : models[w].st = "unborn"
NextSlot == CHOOSE w \in Slots :
              models[w].st = "unborn" /\ \A u \in Slots : u < w => models[u].st # "unborn"
FreeHandles == {h \in Handles : ~heap[h].alloc}

Born(hp, m, calls) ==
    [st |-> "live", ctx |-> m.ctx, z3_mdl |-> m.z3_mdl,
     incs |-> Count(calls, "Z3_model_inc_ref"),
     decs |-> Count(calls, "Z3_model_dec_ref"),
     snap |-> IF Valid(hp, m.ctx, m.z3_mdl) THEN hp[m.z3_mdl].interp ELSE NoInterp]

SymIdle == /\ symIn = [kind |-> "none", i |-> <<0, 0>>, s |-> <<>>]
           /\ symHandle = [kind |-> "none", i |-> 0, bytes |-> <<>>]
           /\ symOut = [kind |-> "none", i |-> <<0, 0>>, s |-> <<>>]

Init ==
    /\ heap = [h \in Handles |-> FreeObj]
    /\ prod = [p \in Producers |-> [asserted |-> {}, status |-> "none", mdl |-> Null]]
    /\ models = [w \in Slots |-> Unborn]
    /\ ret = NoRet
    /\ SymIdle

(***************************************************************************)
(* Solver / Optimize (external): assert, check.                            *)
(***************************************************************************)
Formulas == {"false"}

Release(hp, h) ==
    IF h = Null THEN hp
    ELSE Z3_model_dec_ref([hp EXCEPT ![h].held = 0], hp[h].ctx, h)

SolverAssert(p, fml) ==
    /\ Idle
    /\ fml \notin prod[p].asserted
    /\ prod' = [prod EXCEPT ![p].asserted = @ \cup {fml}]
    /\ ret' = [NoRet EXCEPT !.op = "assert"]
    /\ UNCHANGED <<heap, models, symVars>>

SolverCheck(p) ==
    LET hp1 == Release(heap, prod[p].mdl)
    IN  \/ /\ Idle
           /\ "false" \in prod[p].asserted
           /\ heap' = hp1
           /\ prod' = [prod EXCEPT ![p].status = "unsat", ![p].mdl = Null]
           /\ ret' = [NoRet EXCEPT !.op = "check"]
           /\ UNCHANGED <<models, symVars>>
        \/ /\ Idle
           /\ "false" \notin prod[p].asserted
           /\ \E f \in {h \in Handles : ~hp1[h].alloc} : \E i \in Interps :
                /\ \A u \in Handles : u < f => hp1[u].alloc
                /\ heap' = [hp1 EXCEPT ![f] = [alloc |-> TRUE, ctx |-> ProdCtx(p),
                                                rc |-> 1, held |-> 1, interp |-> i]]
                /\ prod' = [prod EXCEPT ![p].status = "sat", ![p].mdl = f]
           /\ ret' = [NoRet EXCEPT !.op = "check"]
           /\ UNCHANGED <<models, symVars>>

(***************************************************************************)
(* Actions: one per operation of model.rs                                  *)
(***************************************************************************)
Indices == 0..(Cardinality(Consts) + 1)
ToStringOutcomes == {"null", "text", "bad"}

OfSolver ==
    LET r == of_solver(heap, prod)
    IN  /\ Idle
        /\ r.tag = "Some" => HasSlot
        /\ heap' = r.heap
        /\ models' = IF r.tag = "Some"
                       THEN [models EXCEPT ![NextSlot] = Born(r.heap, r.model, r.calls)]
                       ELSE models
        /\ ret' = [NoRet EXCEPT !.op = "of_solver", !.calls = r.calls, !.tag = r.tag,
                                !.n = IF r.tag = "Some" THEN NextSlot ELSE 0]
        /\ UNCHANGED <<prod, symVars>>

OfOptimize ==
    LET r == of_optimize(heap, prod)
    IN  /\ Idle
        /\ r.tag = "Some" => HasSlot
        /\ heap' = r.heap
        /\ models' = IF r.tag = "Some"
                       THEN [models EXCEPT ![NextSlot] = Born(r.heap, r.model, r.calls)]
                       ELSE models
        /\ ret' = [NoRet EXCEPT !.op = "of_optimize", !.calls = r.calls, !.tag = r.tag,
                                !.n = IF r.tag = "Some" THEN NextSlot ELSE 0]
        /\ UNCHANGED <<prod, symVars>>

\* the engine either builds the copy in the lowest free object or fails (null)
Translate(w, dest) ==
    /\ Idle
    /\ Live(w)
    /\ HasSlot
    /\ \E f \in {Null} \cup {h \in FreeHandles : \A u \in Handles : u < h => heap[u].alloc} :
         LET r == translate(heap, Self(w), dest, f)
         IN  /\ heap' = r.heap
             /\ models' = [models EXCEPT ![NextSlot] = Born(r.heap, r.model, r.calls)]
             /\ ret' = [NoRet EXCEPT !.op = "translate", !.self = w, !.calls = r.calls,
                                     !.tag = r.tag, !.n = NextSlot,
                                     !.arg = [NoArg EXCEPT !.dest = dest]]
    /\ UNCHANGED <<prod, symVars>>

Eval(w, ast, mc) ==
    /\ Idle
    /\ Live(w)
    /\ \E dflt \in Defaults :
         LET r == eval(heap, Self(w), ast, mc, dflt)
         IN  /\ heap' = r.heap
             /\ ret' = [NoRet EXCEPT !.op = "eval", !.self = w, !.calls = r.calls,
                                     !.tag = r.tag, !.val = r.val,
                                     !.arg = [NoArg EXCEPT !.e = ast, !.mc = mc]]
    /\ UNCHANGED <<prod, models, symVars>>

GetNumConsts(w) ==
    /\ Idle
    /\ Live(w)
    /\ LET r == get_num_consts(heap, Self(w))
       IN  /\ heap' = r.heap
           /\ ret' = [NoRet EXCEPT !.op = "get_num_consts", !.self = w,
                                   !.calls = r.calls, !.tag = "Val", !.n = r.n]
    /\ UNCHANGED <<prod, models, symVars>>

GetConstDecl(w, index) ==
    /\ Idle
    /\ Live(w)
    /\ LET r == get_const_decl(heap, Self(w), index)
       IN  /\ heap' = r.heap
           /\ ret' = [NoRet EXCEPT !.op = "get_const_decl", !.self = w,
                                   !.calls = r.calls, !.tag = r.tag, !.decl = r.decl,
                                   !.arg = [NoArg EXCEPT !.idx = index]]
    /\ UNCHANGED <<prod, models, symVars>>

GetConstInterp(w, func_decl, T) ==
    /\ Idle
    /\ Live(w)
    /\ LET r == get_const_interp(heap, Self(w), func_decl, T)
       IN  /\ heap' = r.heap
           /\ ret' = [NoRet EXCEPT !.op = "get_const_interp", !.self = w,
                                   !.calls = r.calls, !.tag = r.tag, !.val = r.val,
                                   !.arg = [NoArg EXCEPT !.decl = func_decl, !.T = T]]
    /\ UNCHANGED <<prod, models, symVars>>

GetConstInterpUnchecked(w, func_decl, T) ==
    /\ Idle
    /\ Live(w)
    /\ LET r == get_const_interp_unchecked(heap, Self(w), func_decl, T)
       IN  /\ heap' = r.heap
           /\ ret' = [NoRet EXCEPT !.op = "get_const_interp_unchecked", !.self = w,
                                   !.calls = r.calls, !.tag = r.tag, !.val = r.val,
                                   !.arg = [NoArg EXCEPT !.decl = func_decl, !.T = T]]
    /\ UNCHANGED <<prod, models, symVars>>

Fmt(w, p) ==
    /\ Idle
    /\ Live(w)
    /\ LET r == fmt(heap, Self(w), p)
       IN  /\ heap' = r.heap
           /\ ret' = [NoRet EXCEPT !.op = "fmt", !.self = w, !.calls = r.calls,
                                   !.tag = r.tag]
    /\ UNCHANGED <<prod, models, symVars>>

Drop(w) ==
    /\ Idle
    /\ Live(w)
    /\ LET r == drop(heap, Self(w))
       IN  /\ heap' = r.heap
           /\ models' = [models EXCEPT ![w] =
                           [Unborn EXCEPT !.st = "dropped", !.incs = models[w].incs,
                              !.decs = models[w].decs + Count(r.calls, "Z3_model_dec_ref")]]
           /\ ret' = [NoRet EXCEPT !.op = "drop", !.self = w, !.calls = r.calls]
    /\ UNCHANGED <<prod, symVars>>

\* the caller takes the result of the call
Return ==
    /\ ~Idle
    /\ ret' = NoRet
    /\ UNCHANGED <<heap, prod, models, symVars>>

Next ==
    \/ Return
    \/ \E p \in Producers, fml \in Formulas : SolverAssert(p, fml)
    \/ \E p \in Producers : SolverCheck(p)
    \/ OfSolver
    \/ OfOptimize
    \/ \E w \in Slots, dest \in Ctx : Translate(w, dest)
    \/ \E w \in Slots, ast \in Exprs, mc \in BOOLEAN : Eval(w, ast, mc)
    \/ \E w \in Slots : GetNumConsts(w)
    \/ \E w \in Slots, index \in Indices : GetConstDecl(w, index)
    \/ \E w \in Slots, d \in Consts, T \in Sorts : GetConstInterp(w, d, T)
    \/ \E w \in Slots, d \in Consts, T \in Sorts : GetConstInterpUnchecked(w, d, T)
    \/ \E w \in Slots, p \in ToStringOutcomes : Fmt(w, p)
    \/ \E w \in Slots : Drop(w)

Spec == Init /\ [][Next]_vars

(***************************************************************************)
(* symbol.rs: the Symbol codec.                                            *)
(*                                                                         *)
(* A Symbol::Int holds a u32, kept as <<high half, low half>> of 16 bits   *)
(* each so that every 32-bit value is representable; a C int is an integer *)
(* in -2^31 .. 2^31-1.  A Symbol::String holds a Rust String: a sequence   *)
(* of Unicode scalar values, here over Chars (NUL, 'a', U+00E9).           *)
(***************************************************************************)
Two16 == 65536
Two15 == 32768
Replacement == 65533
Chars == {0, 97, 233}
U32Samples == {<<0, 0>>, <<0, 1>>, <<1, 0>>, <<Two15 - 1, Two16 - 1>>, <<Two15, 0>>,
               <<Two16 - 1, Two16 - 1>>}
Strings == UNION {[1..n -> Chars] : n \in 0..MaxLen}

NoSymbol == [kind |-> "none", i |-> <<0, 0>>, s |-> <<>>]
SymbolInt(u) == [kind |-> "Int", i |-> u, s |-> <<>>]
SymbolString(str) == [kind |-> "String", i |-> <<0, 0>>, s |-> str]
NoHandle == [kind |-> "none", i |-> 0, bytes |-> <<>>]
Panicked == [kind |-> "Panic", i |-> 0, bytes |-> <<>>]

\* a conversion that saturates instead of reinterpreting the bits
as_c_int_saturating(u) == IF u[1] >= Two15 THEN (Two15 - 1) * Two16 + (Two16 - 1)
                          ELSE u[1] * Two16 + u[2]

\* `*i as c_int`: the same 32 bits read as a signed integer
as_c_int(u) == IF u[1] >= Two15 THEN (u[1] - Two16) * Two16 + u[2]
               ELSE u[1] * Two16 + u[2]

\* `... as u32`: the same 32 bits read as an unsigned integer
as_u32(n) == IF n < 0 THEN <<(n \div Two16) + Two16, n % Two16>>
             ELSE <<n \div Two16, n % Two16>>

\* the UTF-8 bytes of a String (one- and two-byte forms)
RECURSIVE Utf8(_)
Utf8(str) == IF str = <<>> THEN <<>>
             ELSE IF Head(str) < 128 THEN <<Head(str)>> \o Utf8(Tail(str))
             ELSE <<192 + (Head(str) \div 64), 128 + (Head(str) % 64)>> \o Utf8(Tail(str))

\* the bytes of a C string: those before the first NUL
RECURSIVE UntilNul(_)
UntilNul(bytes) == IF bytes = <<>> \/ Head(bytes) = 0 THEN <<>>
                   ELSE <<Head(bytes)>> \o UntilNul(Tail(bytes))

HasNul(bytes) == \E k \in DOMAIN bytes : bytes[k] = 0

\* CString::new: an error on an interior NUL, else the bytes and a final NUL
CString_new(bytes) == IF HasNul(bytes) THEN [ok |-> FALSE, buf |-> <<>>]
                      ELSE [ok |-> TRUE, buf |-> bytes \o <<0>>]

\* CStr::to_string_lossy: valid sequences decode, anything else becomes U+FFFD
RECURSIVE to_string_lossy(_)
to_string_lossy(bytes) ==
    IF bytes = <<>> THEN <<>>
    ELSE IF Head(bytes) < 128 THEN <<Head(bytes)>> \o to_string_lossy(Tail(bytes))
    ELSE IF /\ Head(bytes) >= 194 /\ Head(bytes) <= 223 /\ Len(bytes) >= 2
            /\ bytes[2] >= 128 /\ bytes[2] <= 191
           THEN <<(Head(bytes) - 192) * 64 + (bytes[2] - 128)>>
                  \o to_string_lossy(Tail(Tail(bytes)))
    ELSE <<Replacement>> \o to_string_lossy(Tail(bytes))

\* the engine's symbols (external): an integer symbol keeps the C int, a
\* string symbol keeps a copy of the C string it was given
Z3_mk_int_symbol(i) == [kind |-> "Int", i |-> i, bytes |-> <<>>]
Z3_mk_string_symbol(p) == [kind |-> "String", i |-> 0, bytes |-> UntilNul(p)]
Z3_get_symbol_kind(symbol) == symbol.kind
Z3_get_symbol_int(symbol) == symbol.i
Z3_get_symbol_string(symbol) == symbol.bytes \o <<0>>

as_z3_symbol(self) ==
    IF self.kind = "Int" THEN Z3_mk_int_symbol(as_c_int(self.i))
    ELSE LET ss == CString_new(Utf8(self.s))
         IN  IF ss.ok THEN Z3_mk_string_symbol(ss.buf) ELSE Panicked

from_z3_symbol(symbol) ==
    IF Z3_get_symbol_kind(symbol) = "Int"
      THEN SymbolInt(as_u32(Z3_get_symbol_int(symbol)))
      ELSE SymbolString(to_string_lossy(UntilNul(Z3_get_symbol_string(symbol))))

SymFromU32(val) ==
    /\ symIn = NoSymbol
    /\ symIn' = SymbolInt(val)
    /\ UNCHANGED <<mdlVars, symHandle, symOut>>

SymFromStr(val) ==
    /\ symIn = NoSymbol
    /\ symIn' = SymbolString(val)
    /\ UNCHANGED <<mdlVars, symHandle, symOut>>

AsZ3Symbol ==
    /\ symIn # NoSymbol
    /\ symHandle = NoHandle
    /\ symHandle' = as_z3_symbol(symIn)
    /\ UNCHANGED <<mdlVars, symIn, symOut>>

FromZ3Symbol ==
    /\ symHandle.kind \in {"Int", "String"}
    /\ symOut = NoSymbol
    /\ symOut' = from_z3_symbol(symHandle)
    /\ UNCHANGED <<mdlVars, symIn, symHandle>>

SymNext ==
    \/ \E val \in U32Samples : SymFromU32(val)
    \/ \E val \in Strings : SymFromStr(val)
    \/ AsZ3Symbol
    \/ FromZ3Symbol

SymSpec == Init /\ [][SymNext]_vars

(***************************************************************************)
(* Properties                                                              *)
(***************************************************************************)
QueryOps == {"eval", "get_num_consts", "get_const_decl", "get_const_interp",
             "get_const_interp_unchecked", "fmt"}
LiveOn(h) == {w \in Slots : Live(w) /\ models[w].z3_mdl = h}
SelfValid(w) == Valid(heap, models[w].ctx, models[w].z3_mdl)

\* C1: every wrapper issues exactly one increment, at construction, and
\* exactly one decrement, at drop: a live wrapper has contributed +1 and a
\* dropped one 0; the engine's count of an object is the solver's own
\* references plus one per live wrapper, so it never falls beneath a live
\* wrapper; queries issue no increment or decrement; only live wrappers act
\* and the decrement is the last call a wrapper makes.
C1_RefCountDiscipline ==
    /\ \A w \in Slots :
         /\ models[w].st = "unborn" => models[w].incs = 0 /\ models[w].decs = 0
         /\ models[w].st = "live" => models[w].incs = 1 /\ models[w].decs = 0
         /\ models[w].st = "dropped" => models[w].incs = 1 /\ models[w].decs = 1
         /\ Live(w) /\ models[w].z3_mdl # Null => heap[models[w].z3_mdl].alloc
    /\ \A h \in Handles :
         heap[h].alloc => heap[h].rc = heap[h].held + Cardinality(LiveOn(h))
    /\ ret.op \in QueryOps =>
         /\ Live(ret.self)
         /\ Count(ret.calls, "Z3_model_inc_ref") = 0
         /\ Count(ret.calls, "Z3_model_dec_ref") = 0
    /\ ret.op = "translate" =>
         /\ Live(ret.self)
         /\ Count(ret.calls, "Z3_model_inc_ref") = 1
         /\ Count(ret.calls, "Z3_model_dec_ref") = 0
    /\ ret.op = "drop" =>
         /\ models[ret.self].st = "dropped"
         /\ Len(ret.calls) = 1
         /\ ret.calls[1].fn = "Z3_model_dec_ref"

C1_Witness ==
    /\ ret.op = "drop"
    /\ models[ret.self].st = "dropped"
    /\ models[ret.self].incs = 1 /\ models[ret.self].decs = 1
    /\ \E u \in Slots : Live(u) /\ SelfValid(u)

OpProducer(op) == IF op = "of_solver" THEN "slv" ELSE "opt"

\* C2: of_solver / of_optimize return the empty case, with no engine
\* increment, when the producer holds no model (no check yet, or the last
\* check was not sat); otherwise they return a live Model over the
\* producer's handle, in the producer's context, with exactly one increment.
C2_OfSolver ==
    ret.op \in {"of_solver", "of_optimize"} =>
      LET p == OpProducer(ret.op)
      IN  IF prod[p].status # "sat"
            THEN /\ ret.tag = "None"
                 /\ ret.calls = <<>>
                 /\ \A h \in Handles :
                      heap[h].alloc => heap[h].rc = heap[h].held + Cardinality(LiveOn(h))
            ELSE /\ ret.tag = "Some"
                 /\ Live(ret.n)
                 /\ models[ret.n].ctx = ProdCtx(p)
                 /\ models[ret.n].z3_mdl = prod[p].mdl
                 /\ models[ret.n].z3_mdl # Null
                 /\ Count(ret.calls, "Z3_model_inc_ref") = 1
                 /\ models[ret.n].incs = 1

C2_Witness ==
    /\ ret.op = "of_solver"
    /\ prod["slv"].status = "unsat"
    /\ ret.tag = "None"

\* C3: get_const_decl(index) is the empty case when index >= get_num_consts()
\* and the engine is not asked for such an index; below the count it is a
\* FuncDecl; it never aborts.
C3_GetConstDecl ==
    ret.op = "get_const_decl" =>
      LET n == Z3_model_get_num_consts(heap, models[ret.self].ctx, models[ret.self].z3_mdl)
      IN  /\ ret.tag \in {"None", "Some"}
          /\ ret.arg.idx >= n =>
               /\ ret.tag = "None"
               /\ Count(ret.calls, "Z3_model_get_const_decl") = 0
          /\ ret.arg.idx < n => ret.tag = "Some" /\ ret.decl \in Consts

C3_Witness ==
    /\ ret.op = "get_const_decl"
    /\ SelfValid(ret.self)
    /\ Assigned(heap, models[ret.self].z3_mdl) = {}
    /\ ret.arg.idx = 0
    /\ ret.tag = "None"

\* C4: get_const_interp<T>(decl): no interpretation gives the empty case
\* whatever T is; an interpretation of another sort than T aborts and
\* returns nothing; an interpretation of sort T is returned wrapped as T.
C4_GetConstInterp ==
    ret.op = "get_const_interp" =>
      LET self == Self(ret.self)
          i == Z3_model_get_const_interp(heap, self.ctx, self.z3_mdl, ret.arg.decl)
      IN  /\ i = NullAst => ret.tag = "None"
          /\ i # NullAst /\ i.sort # ret.arg.T => ret.tag = "Panic" /\ ret.val = NoVal
          /\ i # NullAst /\ i.sort = ret.arg.T =>
               ret.tag = "Some" /\ ret.val = [ctx |-> self.ctx, ast |-> i, T |-> ret.arg.T]

C4_Witness ==
    /\ ret.op = "get_const_interp"
    /\ ret.tag = "Panic"
    /\ SelfValid(ret.self)

\* C5: translate builds a Model bound to dest, with its own increment, on a
\* handle of its own holding the source's contents, and the source is left
\* as it was; every live Model stays queryable (a valid handle of its
\* context) with the contents it was built over and a count that is the
\* engine's references plus the live wrappers.
C5_TranslateIndependent ==
    /\ ret.op = "translate" =>
         /\ Live(ret.self) /\ Live(ret.n)
         /\ models[ret.n].ctx = ret.arg.dest
         /\ models[ret.n].incs = 1
         /\ models[ret.n].z3_mdl # models[ret.self].z3_mdl
         /\ models[ret.n].snap = models[ret.self].snap
    /\ \A w \in Slots :
         Live(w) =>
           /\ SelfValid(w)
           /\ heap[models[w].z3_mdl].interp = models[w].snap
           /\ heap[models[w].z3_mdl].rc =
                heap[models[w].z3_mdl].held + Cardinality(LiveOn(models[w].z3_mdl))

\* C7: the unchecked lookup is empty exactly when the checked lookup is;
\* when the checked lookup returns a value the unchecked one returns the
\* same; when the checked lookup aborts the unchecked one returns a value
\* whose sort is not T's.
C7_UncheckedVsChecked ==
    ret.op = "get_const_interp_unchecked" =>
      LET self == Self(ret.self)
          i == Z3_model_get_const_interp(heap, self.ctx, self.z3_mdl, ret.arg.decl)
          c == get_const_interp(heap, self, ret.arg.decl, ret.arg.T)
      IN  /\ ret.tag \in {"None", "Some"}
          /\ (ret.tag = "None") <=> (c.tag = "None")
          /\ (ret.tag = "None") <=> (i = NullAst)
          /\ c.tag = "Some" => ret.tag = "Some" /\ ret.val = c.val
          /\ c.tag = "Panic" =>
               /\ ret.tag = "Some"
               /\ ret.val.ast = i
               /\ ret.val.ast.sort # ret.val.T

C7_Witness ==
    /\ ret.op = "get_const_interp_unchecked"
    /\ ret.tag = "Some"
    /\ ret.val.ast.sort # ret.val.T

\* C8: eval returns a value exactly when the engine reports success, wrapped
\* as the expression's type in the model's context; on a model with a valid
\* handle, completion always gives a value, and without completion an
\* expression over an unassigned constant gives the empty result.
C8_Eval ==
    ret.op = "eval" =>
      LET self == Self(ret.self)
          e == ret.arg.e
          r(d) == Z3_model_eval(heap, self.ctx, self.z3_mdl, e, ret.arg.mc, d)
      IN  /\ ret.tag \in {"None", "Some"}
          /\ (ret.tag = "Some") <=> (\E d \in Defaults : r(d).ok)
          /\ ret.tag = "Some" =>
               /\ ret.val.ctx = self.ctx
               /\ ret.val.T = e.sort
               /\ \E d \in Defaults : r(d).ok /\ ret.val.ast = r(d).ast
          /\ SelfValid(ret.self) /\ ret.arg.mc =>
               ret.tag = "Some" /\ ret.val.ast \in Values(e.sort)
          /\ /\ SelfValid(ret.self)
             /\ ~ret.arg.mc
             /\ ~(Deps(e) \subseteq Assigned(heap, self.z3_mdl))
             => ret.tag = "None"

C8_Witness ==
    /\ ret.op = "eval"
    /\ ret.arg.mc
    /\ SelfValid(ret.self)
    /\ ~(Deps(ret.arg.e) \subseteq Assigned(heap, models[ret.self].z3_mdl))
    /\ ret.tag = "Some"

NumConsts(hp, ms, w) == Z3_model_get_num_consts(hp, ms[w].ctx, ms[w].z3_mdl)

\* C9: a query step changes nothing of the engine's objects, the wrappers or
\* the producers, and the count of constants of every live Model is the same
\* after it as before.
C9_QueriesFrame ==
    [][ret'.op \in QueryOps =>
         /\ heap' = heap
         /\ models' = models
         /\ prod' = prod
         /\ \A w \in Slots : Live(w) => NumConsts(heap', models', w) = NumConsts(heap, models, w)
      ]_vars

C9_Witness ==
    /\ ret.op = "get_const_decl"
    /\ ret.tag = "Some"
    /\ ret.decl = "y"
    /\ models[ret.self].incs = 1
    /\ heap[models[ret.self].z3_mdl].rc = 2

\* C10: every live Model holds a non-null handle and no engine call is made
\* on a null model handle.
C10_NonNullHandle ==
    /\ \A w \in Slots : Live(w) => models[w].z3_mdl # Null
    /\ \A k \in DOMAIN ret.calls : ret.calls[k].mdl # Null

====
